---- MODULE Spec2Model ----
(***************************************************************************)
(* Model of mailpile/plugins/setup_magic.py: the Setup command, which      *)
(* brings the configuration and the tag store to their baseline.           *)
(*                                                                         *)
(* Python values are represented as follows: a dict is a function whose    *)
(* DOMAIN is its set of keys, a list is a sequence, and every scalar       *)
(* attribute value (False, 2, 'inbox') is the string of its repr, so that  *)
(* values of one dict are comparable.  A date string is the sequence of    *)
(* its character codes, which Python compares lexicographically.           *)
(***************************************************************************)
EXTENDS Integers, Sequences, FiniteSets, TLC

\* ------------------------------------------------------------------------
\* Bounds of the model
\* ------------------------------------------------------------------------

\* Number of changes of the world outside the command in one behaviour.
MaxEnvChanges == 1

\* ------------------------------------------------------------------------
\* Generic helpers for Python dicts and lists
\* ------------------------------------------------------------------------

\* dict.update(new): keys of new are overwritten or added, others are kept.
DictUpdate(old, new) ==
    [a \in (DOMAIN old) \cup (DOMAIN new) |->
        IF a \in DOMAIN new THEN new[a] ELSE old[a]]

\* x in list
InList(x, list) == \E i \in 1..Len(list) : list[i] = x

\* gettext without a bound message catalog returns the message id.
gettext(msg) == msg

\* ------------------------------------------------------------------------
\* Setup.TAGS
\* ------------------------------------------------------------------------

\* The keys of Setup.TAGS.  A dict is iterated in one fixed order; the
\* model takes the order of the class body, which matters only for the tags
\* that precede an exception.
TagOrder ==
    << "New", "Inbox", "Blank", "Drafts", "Outbox", "Sent", "Spam",
       "MaybeSpam", "Ham", "Trash", "All Mail", "Photos", "Files", "Links",
       "mp_rpl", "mp_fwd", "mp_tag", "mp_read", "mp_ham" >>

TAGS ==
    [t \in {TagOrder[i] : i \in 1..Len(TagOrder)} |->
      CASE t = "New" ->
             [type |-> "unread", label |-> "False", display |-> "invisible",
              icon |-> "icon-new", label_color |-> "03-gray-dark",
              name |-> gettext("New")]
        [] t = "Inbox" ->
             [type |-> "inbox", display |-> "priority",
              display_order |-> "2", icon |-> "icon-inbox",
              label_color |-> "06-blue", name |-> gettext("Inbox")]
        [] t = "Blank" ->
             [type |-> "blank", flag_editable |-> "True",
              display |-> "invisible", name |-> gettext("Blank")]
        [] t = "Drafts" ->
             [type |-> "drafts", flag_editable |-> "True",
              display |-> "priority", display_order |-> "1",
              icon |-> "icon-compose", label_color |-> "03-gray-dark",
              name |-> gettext("Drafts")]
        [] t = "Outbox" ->
             [type |-> "outbox", display |-> "priority",
              display_order |-> "3", icon |-> "icon-outbox",
              label_color |-> "06-blue", name |-> gettext("Outbox")]
        [] t = "Sent" ->
             [type |-> "sent", display |-> "priority",
              display_order |-> "4", icon |-> "icon-sent",
              label_color |-> "03-gray-dark", name |-> gettext("Sent")]
        [] t = "Spam" ->
             [type |-> "spam", flag_hides |-> "True",
              display |-> "priority", display_order |-> "5",
              icon |-> "icon-spam", label_color |-> "10-orange",
              name |-> gettext("Spam")]
        [] t = "MaybeSpam" ->
             [display |-> "invisible", icon |-> "icon-spam",
              label_color |-> "10-orange", name |-> gettext("MaybeSpam")]
        [] t = "Ham" ->
             [type |-> "ham", display |-> "invisible",
              name |-> gettext("Ham")]
        [] t = "Trash" ->
             [type |-> "trash", flag_hides |-> "True",
              display |-> "priority", display_order |-> "6",
              icon |-> "icon-trash", label_color |-> "13-brown",
              name |-> gettext("Trash")]
        [] t = "All Mail" ->
             [type |-> "tag", icon |-> "icon-logo",
              label_color |-> "06-blue", search_terms |-> "all:mail",
              name |-> gettext("All Mail"), display_order |-> "1000"]
        [] t = "Photos" ->
             [type |-> "tag", icon |-> "icon-photos",
              label_color |-> "08-green", search_terms |-> "att:jpg",
              name |-> gettext("Photos"), template |-> "photos",
              display_order |-> "1001"]
        [] t = "Files" ->
             [type |-> "tag", icon |-> "icon-document",
              label_color |-> "06-blue", search_terms |-> "has:attachment",
              name |-> gettext("Files"), template |-> "files",
              display_order |-> "1002"]
        [] t = "Links" ->
             [type |-> "tag", icon |-> "icon-links",
              label_color |-> "12-red", search_terms |-> "http",
              name |-> gettext("Links"), display_order |-> "1003"]
        [] t = "mp_rpl" ->
             [type |-> "replied", label |-> "False", display |-> "invisible"]
        [] t = "mp_fwd" ->
             [type |-> "fwded", label |-> "False", display |-> "invisible"]
        [] t = "mp_tag" ->
             [type |-> "tagged", label |-> "False", display |-> "invisible"]
        [] t = "mp_read" ->
             [type |-> "read", label |-> "False", display |-> "invisible"]
        [] t = "mp_ham" ->
             [type |-> "ham", label |-> "False", display |-> "invisible"]]

\* SignatureInfo.STATUSES and EncryptionInfo.STATUSES (mailpile.crypto.gpgi).
SignatureStatuses == << "none", "verified" >>
EncryptionStatuses == << "none", "decrypted" >>

\* 'mp_%s-%s' % (stype, status)
AttributeTagName(stype, status) == "mp_" \o stype \o "-" \o status

\* The attributes given to every mp_sig-* and mp_enc-* tag.
AttributeTagAttrs ==
    [type |-> "attribute", display |-> "invisible", label |-> "False"]

\* The tag names of the second loop, in the order the loop visits them.
AttributeTagOrder ==
    [i \in 1..Len(SignatureStatuses) |->
        AttributeTagName("sig", SignatureStatuses[i])]
    \o [i \in 1..Len(EncryptionStatuses) |->
        AttributeTagName("enc", EncryptionStatuses[i])]


\* ------------------------------------------------------------------------
\* The tag store: session.config.get_tag_id, get_tag and AddTag
\* ------------------------------------------------------------------------

\* config.tags is a sequence of tags [key, attrs]; a tag id is its position
\* and 0 stands for None.
get_tag_id(tags, t) ==
    IF \E i \in 1..Len(tags) : tags[i].key = t
    THEN CHOOSE i \in 1..Len(tags) :
            /\ tags[i].key = t
            /\ \A j \in 1..(i - 1) : tags[j].key # t
    ELSE 0

\* AddTag(session, arg=[t]).run(save=False): appends a tag named t, unless
\* the tag command refuses (t \in refused) and returns an error result.
AddTag(tags, t, refused) ==
    IF t \in refused
    THEN tags
    ELSE Append(tags, [key |-> t, attrs |-> [name |-> t]])

\* CreateOrUpdateTag without the test of lines 165 and 173.
CreateOrUpdateTag_AlwaysAdds(st, t, attrs, refused) ==
    LET added   == AddTag(st.tags, t, refused)
        created == Append(st.created, t)
        id      == get_tag_id(added, t)
    IN  IF id = 0
        THEN [tags |-> added, created |-> created, raised |-> TRUE]
        ELSE [tags |-> [added EXCEPT ![id].attrs = DictUpdate(@, attrs)],
              created |-> created, raised |-> FALSE]

\* One iteration of either tag loop (lines 165-168 and 173-180) on the
\* loop state st = [tags, created, raised]: create the tag if it has no id,
\* then update the tag that get_tag finds.  get_tag yields None for a tag
\* that is still missing, and None.update raises AttributeError.  added is
\* the store after the creation, bound as a value.
CreateOrUpdateTag(st, t, attrs, refused) ==
    LET missing == get_tag_id(st.tags, t) = 0
        created == IF missing THEN Append(st.created, t) ELSE st.created
    IN  CHOOSE out \in
          { LET id == get_tag_id(added, t)
            IN  IF id = 0
                THEN [tags |-> added, created |-> created, raised |-> TRUE]
                ELSE [tags |-> [added EXCEPT
                                  ![id].attrs = DictUpdate(@, attrs)],
                      created |-> created, raised |-> FALSE] :
              added \in { IF missing THEN AddTag(st.tags, t, refused)
                                     ELSE st.tags } } :
          TRUE

\* A tag loop over items[i..], each item being [name, attrs]; an exception
\* leaves the loop.  The state after an iteration is bound as next, so that
\* it is computed once.
RECURSIVE TagLoop(_, _, _, _)
TagLoop(st, items, i, refused) ==
    IF st.raised \/ i > Len(items)
    THEN st
    ELSE CHOOSE out \in
            { TagLoop(next, items, i + 1, refused) :
                next \in { CreateOrUpdateTag(st, items[i].name,
                                             items[i].attrs, refused) } } :
            TRUE

\* for t in self.TAGS
StandardTagItems ==
    [i \in 1..Len(TagOrder) |->
        [name |-> TagOrder[i], attrs |-> TAGS[TagOrder[i]]]]

\* for stype, statuses in ...: for status in statuses
AttributeTagItems ==
    [i \in 1..Len(AttributeTagOrder) |->
        [name |-> AttributeTagOrder[i], attrs |-> AttributeTagAttrs]]

\* Lines 163-180: both loops, sharing the list created; first is the loop
\* state between the two.
CreateStandardTags(tags, refused) ==
    CHOOSE out \in
        { TagLoop(first, AttributeTagItems, 1, refused) :
            first \in { TagLoop([tags |-> tags, created |-> <<>>,
                                 raised |-> FALSE],
                                StandardTagItems, 1, refused) } } :
        TRUE

\* ------------------------------------------------------------------------
\* Dates: date.today().strftime("%Y-%m-%d") and the string comparison
\* ------------------------------------------------------------------------

\* Character codes of '0'..'9' and '-'.
Digit(n) == 48 + n
Hyphen == 45

\* strftime("%Y-%m-%d") of a date [y, m, d]: zero-padded fields.
strftime(date) ==
    << Digit(date.y \div 1000), Digit((date.y \div 100) % 10),
       Digit((date.y \div 10) % 10), Digit(date.y % 10), Hyphen,
       Digit(date.m \div 10), Digit(date.m % 10), Hyphen,
       Digit(date.d \div 10), Digit(date.d % 10) >>

\* Python's str <= str: lexicographic on character codes, a proper prefix
\* being smaller.
RECURSIVE StrLE(_, _)
StrLE(a, b) ==
    IF a = <<>> THEN TRUE
    ELSE IF b = <<>> THEN FALSE
    ELSE IF Head(a) # Head(b) THEN Head(a) < Head(b)
    ELSE StrLE(Tail(a), Tail(b))

\* IsRevoked with < in the place of <= on line 234.
IsRevoked_Strict(details, today) ==
    /\ "revocation-date" \in DOMAIN details
    /\ StrLE(details["revocation-date"], strftime(today))
    /\ details["revocation-date"] # strftime(today)

\* Lines 233-235: the key is ignored as revoked or expired.
IsRevoked(details, today) ==
    /\ "revocation-date" \in DOMAIN details
    /\ StrLE(details["revocation-date"], strftime(today))


\* ------------------------------------------------------------------------
\* Discovery of the secret keys (lines 231-259)
\* ------------------------------------------------------------------------

\* [x["email"] for x in session.config.profiles]
ProfileEmails(profiles) == {profiles[i].email : i \in 1..Len(profiles)}

\* AddProfiles without the test of lines 243-246.
RECURSIVE AddProfiles_NoDedup(_, _, _)
AddProfiles_NoDedup(profiles, uids, i) ==
    IF i > Len(uids) THEN profiles
    ELSE LET uid == uids[i]
         IN  IF "email" \notin DOMAIN uid \/ uid.email = ""
             THEN AddProfiles_NoDedup(profiles, uids, i + 1)
             ELSE AddProfiles_NoDedup(
                     Append(profiles,
                            [email |-> uid.email, name |-> uid.name]),
                     uids, i + 1)

\* Lines 239-253: the loop over details["uids"], from uid i on.
RECURSIVE AddProfiles(_, _, _)
AddProfiles(profiles, uids, i) ==
    IF i > Len(uids) THEN profiles
    ELSE LET uid == uids[i]
         IN  IF "email" \notin DOMAIN uid \/ uid.email = ""
             THEN AddProfiles(profiles, uids, i + 1)
             ELSE IF uid.email \in ProfileEmails(profiles)
             THEN AddProfiles(profiles, uids, i + 1)
             ELSE AddProfiles(
                     Append(profiles,
                            [email |-> uid.email, name |-> uid.name]),
                     uids, i + 1)

\* ProcessKey without the test of line 254: the last capable key wins.
ProcessKey_LastWins(st, key, details, today) ==
    IF IsRevoked(details, today)
    THEN st
    ELSE LET takes == details.capabilities.encrypt
         IN  [profiles      |-> AddProfiles(st.profiles, details.uids, 1),
              gpg_recipient |-> IF takes THEN key ELSE st.gpg_recipient,
              crypto_policy |-> IF st.crypto_policy = "none"
                                THEN "openpgp-sign" ELSE st.crypto_policy,
              accepted_keys |-> Append(st.accepted_keys, key),
              notified      |-> IF takes
                                THEN Append(st.notified, "notify:encrypting")
                                ELSE st.notified]

\* ProcessKey with the test of line 258 placed under that of line 255: only
\* a key that can encrypt upgrades the crypto policy.
ProcessKey_PolicyUnderEncrypt(st, key, details, today) ==
    IF IsRevoked(details, today)
    THEN st
    ELSE LET takes == st.gpg_recipient = "" /\ details.capabilities.encrypt
         IN  [profiles      |-> AddProfiles(st.profiles, details.uids, 1),
              gpg_recipient |-> IF takes THEN key ELSE st.gpg_recipient,
              crypto_policy |-> IF /\ st.crypto_policy = "none"
                                   /\ details.capabilities.encrypt
                                THEN "openpgp-sign" ELSE st.crypto_policy,
              accepted_keys |-> Append(st.accepted_keys, key),
              notified      |-> IF takes
                                THEN Append(st.notified, "notify:encrypting")
                                ELSE st.notified]

\* Lines 232-259: the body of the loop over keys.iteritems() for one key,
\* on st = [profiles, gpg_recipient, crypto_policy, accepted_keys, notified].
ProcessKey(st, key, details, today) ==
    IF IsRevoked(details, today)
    THEN st
    ELSE LET takes == st.gpg_recipient = "" /\ details.capabilities.encrypt
         IN  [profiles      |-> AddProfiles(st.profiles, details.uids, 1),
              gpg_recipient |-> IF takes THEN key ELSE st.gpg_recipient,
              crypto_policy |-> IF st.crypto_policy = "none"
                                THEN "openpgp-sign" ELSE st.crypto_policy,
              accepted_keys |-> Append(st.accepted_keys, key),
              notified      |-> IF takes
                                THEN Append(st.notified, "notify:encrypting")
                                ELSE st.notified]

\* Line 231: the loop over the keys in enumeration order, from key i on.
RECURSIVE KeyLoop(_, _, _, _)
KeyLoop(st, keys, i, today) ==
    IF i > Len(keys) THEN st
    ELSE KeyLoop(ProcessKey(st, keys[i].key, keys[i].details, today),
                 keys, i + 1, today)

\* ------------------------------------------------------------------------
\* Plugins and importers (lines 185-220)
\* ------------------------------------------------------------------------

\* mailpile.plugins.__all__
PLUGINS == << "tags", "search" >>

\* AppendPlugins without the test of line 187.
RECURSIVE AppendPlugins_NoCheck(_, _)
AppendPlugins_NoCheck(plugins, i) ==
    IF i > Len(PLUGINS) THEN plugins
    ELSE AppendPlugins_NoCheck(Append(plugins, PLUGINS[i]), i + 1)

\* AppendPlugins that sets the list to the known plugins.
AppendPlugins_Replaces(plugins, i) ==
    PLUGINS

\* Lines 186-188: append every plugin that is not in the list, from i on.
RECURSIVE AppendPlugins(_, _)
AppendPlugins(plugins, i) ==
    IF i > Len(PLUGINS) THEN plugins
    ELSE AppendPlugins(IF InList(PLUGINS[i], plugins)
                       THEN plugins ELSE Append(plugins, PLUGINS[i]),
                       i + 1)

\* Lines 214-220: the default autotag rule.
DefaultAutotag ==
    [match_tag |-> "spam", unsure_tag |-> "maybespam",
     tagger |-> "spambayes", trainer |-> "spambayes",
     exclude_tags |-> << "ham" >>]

\* Values sha512b64 can return: never the empty string.
Salts == { "salt1", "salt2" }


\* ------------------------------------------------------------------------
\* State
\* ------------------------------------------------------------------------

VARIABLES
    config,           \* session.config in memory: tags, sys.plugins, prefs.*,
                      \* profiles
    disk,             \* the configuration as last written by config.save()
    lockdown,         \* session.config.sys.lockdown
    gnupg_available,  \* GnuPG().is_available()
    keyring,          \* GnuPG().list_secret_keys(), in iteritems() order
    today,            \* date.today()
    index_built,      \* self._idx() and self._idx().INDEX
    sb_installed,     \* import mailpile.plugins.autotag_sb succeeds
    gpg_home_exists,  \* os.path.exists(gpg_home)
    refused,          \* the tag names for which AddTag creates no tag
    keyring_listing,  \* what list_secret_keys() does: "works", returns an
                      \* "empty" dict, or "raises" an exception
    pc,               \* position of the command: "idle", a stage, or "done"
    result,           \* what the last run returned
    trace,            \* collaborator calls and messages of the current run
    accepted_keys,    \* the local list accepted_keys of the current run
    start,            \* config as it was when the current run started
    repeat,           \* the current run started right after another run
    changes           \* number of changes of the outside world so far

vars == << config, disk, lockdown, gnupg_available, keyring, today,
           index_built, sb_installed, gpg_home_exists, refused,
           keyring_listing, pc, result, trace, accepted_keys, start, repeat,
           changes >>

env == << lockdown, gnupg_available, keyring, today, index_built,
          sb_installed, gpg_home_exists, refused, keyring_listing >>

\* ------------------------------------------------------------------------
\* Sets the inputs are drawn from
\* ------------------------------------------------------------------------

\* Three days, in calendar order.
Dates ==
    << [y |-> 2025, m |-> 12, d |-> 31],
       [y |-> 2026, m |-> 2,  d |-> 10],
       [y |-> 2026, m |-> 11, d |-> 2] >>

UAlice   == [email |-> "alice@example.com", name |-> "Alice"]
UAl      == [email |-> "alice@example.com", name |-> "Al"]
UBob     == [email |-> "bob@example.com", name |-> "Bob"]
UEmpty   == [email |-> "", name |-> "Nobody"]
UNoEmail == [name |-> "Anonymous"]

\* The user identities on each secret key of the keyring.
UidsOf(k) ==
    IF k = "keyA" THEN << UAlice, UNoEmail, UAl >>
                  ELSE << UBob, UEmpty, UAlice >>

\* The details key k can have: with or without the encrypt capability,
\* never revoked, revoked on the first or revoked on the last of Dates.
KeyDetails(k) ==
    LET plain == [uids : { UidsOf(k) }, capabilities : [encrypt : BOOLEAN]]
    IN  plain \cup
        { d @@ ("revocation-date" :> strftime(Dates[i])) :
              d \in plain, i \in { 1, Len(Dates) } }

KeyIds == { "keyA", "keyB" }

\* The entries list_secret_keys can hold for key k.
KeyEntries(k) == { [key |-> k, details |-> d] : d \in KeyDetails(k) }

\* Keyrings of at most two keys with distinct ids, in every order.
Keyrings ==
    { <<>> }
    \cup UNION { { << e >> : e \in KeyEntries(k) } : k \in KeyIds }
    \cup UNION { { << e1, e2 >> : e1 \in KeyEntries(o[1]),
                                  e2 \in KeyEntries(o[2]) } :
                   o \in { << "keyA", "keyB" >>, << "keyB", "keyA" >> } }

\* A tag the user made, which is no standard tag.
UserTag == [key |-> "Work", attrs |-> [name |-> "Work", type |-> "tag"]]

\* Tag stores a run can find: empty, or holding a user tag and standard tags
\* whose attributes differ from Setup.TAGS.  No store has two tags of one
\* key, as AddTag refuses an existing name.
StartTagStores ==
    { <<>>,
      << [key |-> "MaybeSpam",
          attrs |-> [name |-> "MaybeSpam", type |-> "spam",
                     display |-> "priority"]],
         UserTag,
         [key |-> "New",
          attrs |-> [name |-> "New", type |-> "tag", icon |-> "icon-old"]],
         [key |-> "mp_sig-none",
          attrs |-> [name |-> "mp_sig-none", label |-> "True"]] >> }

\* Sets of tag names AddTag may refuse to create.
RefusedSets == { { "Spam" }, { "MaybeSpam" }, { "mp_enc-none" } }

StartPlugins == { <<>>, << "search", "autotag_sb", "hacks" >> }

StartAutotag ==
    { <<>>,
      << [match_tag |-> "junk", unsure_tag |-> "maybejunk",
          tagger |-> "spambayes", trainer |-> "spambayes",
          exclude_tags |-> <<>>] >> }

\* The profiles of a user who entered one address by hand.
StartProfile ==
    << [email |-> "alice@example.com", name |-> "Alice L."] >>

\* A configuration with everything but the given parts at its default.
StartConfig(tags, plugins, autotag, profiles, recipient, policy) ==
    [tags            |-> tags,
     plugins         |-> plugins,
     gravatar        |-> <<>>,
     gpg             |-> <<>>,
     autotag         |-> autotag,
     profiles        |-> profiles,
     gpg_recipient   |-> recipient,
     crypto_policy   |-> policy,
     obfuscate_index |-> "",
     index_encrypted |-> FALSE]

\* Keyrings of the installs that vary in tags, plugins and importers.
FewKeyrings ==
    { <<>>,
      << [key |-> "keyA",
          details |-> [uids |-> UidsOf("keyA"),
                       capabilities |-> [encrypt |-> TRUE]]],
         [key |-> "keyB",
          details |-> [uids |-> UidsOf("keyB"),
                       capabilities |-> [encrypt |-> FALSE]]] >> }

\* Installs that vary in tags, plugins and importers.
InitStores ==
    /\ config \in
         { StartConfig(t, p, a, <<>>, "", "none") :
             t \in StartTagStores, p \in StartPlugins, a \in StartAutotag }
    /\ keyring \in FewKeyrings
    /\ sb_installed \in BOOLEAN
    /\ gpg_home_exists \in BOOLEAN

\* Installs that vary in the keyring, the profiles and the crypto settings.
InitKeys ==
    /\ config \in
         { StartConfig(<<>>, <<>>, <<>>, <<>>, "", "none"),
           StartConfig(<<>>, <<>>, <<>>, StartProfile, "", "openpgp-sign"),
           StartConfig(<<>>, <<>>, <<>>, StartProfile, "keyZ",
                       "openpgp-sign-encrypt") }
    /\ keyring \in Keyrings
    /\ refused = {}
    /\ sb_installed = TRUE
    /\ gpg_home_exists = TRUE

\* What every install starts with: nothing has run yet.
InitCommon ==
    /\ disk = config
    /\ lockdown = FALSE
    /\ gnupg_available = TRUE
    /\ today = Dates[2]
    /\ index_built = FALSE
    /\ pc = "idle"
    /\ result = "none"
    /\ trace = <<>>
    /\ accepted_keys = <<>>
    /\ start = config
    /\ repeat = FALSE
    /\ changes = 0

\* The tag command creates every tag it is asked for and the keyring lists
\* its keys.
Init ==
    /\ (InitStores /\ refused = {}) \/ InitKeys
    /\ keyring_listing = "works"
    /\ InitCommon

\* The tag command refuses to create some standard tag.
InitRefusing ==
    /\ InitStores
    /\ refused \in RefusedSets
    /\ keyring_listing = "works"
    /\ InitCommon

\* GnuPG is there, and listing the secret keys fails: the call returns no
\* key or raises an exception.
InitListingFails ==
    /\ InitStores
    /\ refused = {}
    /\ keyring_listing \in { "empty", "raises" }
    /\ InitCommon

\* gnupg.list_secret_keys() when it returns: the keys of the keyring, or no
\* key when the listing has failed without an exception.
list_secret_keys(keys, listing) ==
    IF listing = "works" THEN keys ELSE <<>>

\* ------------------------------------------------------------------------
\* Setup.command, stage by stage
\* ------------------------------------------------------------------------

\* session.ui.notify, session.ui.warning and the calls to collaborators
\* are recorded in trace.
Emit(tr, cond, event) == IF cond THEN Append(tr, event) ELSE tr

\* GuardCheck without the test of line 153.
GuardCheck_IgnoresLockdown ==
    /\ pc \in { "idle", "done" }
    /\ start' = config
    /\ repeat' = (pc = "done")
    /\ trace' = <<>>
    /\ accepted_keys' = <<>>
    /\ pc' = "PreMigration" /\ result' = "none"
    /\ UNCHANGED << config, disk, env, changes >>

\* Lines 151-154: a run starts; in lockdown it returns an error at once.
GuardCheck ==
    /\ pc \in { "idle", "done" }
    /\ start' = config
    /\ repeat' = (pc = "done")
    /\ trace' = <<>>
    /\ accepted_keys' = <<>>
    /\ IF lockdown
       THEN pc' = "done" /\ result' = "error"
       ELSE pc' = "PreMigration" /\ result' = "none"
    /\ UNCHANGED << config, disk, env, changes >>

\* PreMigration with the arguments of line 281 in the place of those of
\* line 157.
PreMigration_AfterSetup ==
    /\ pc = "PreMigration"
    /\ trace' = Append(trace, "migrate:after_setup")
    /\ pc' = "EnsureMailbox"
    /\ UNCHANGED << config, disk, env, result, accepted_keys, start, repeat, changes >>

\* Line 157: Migrate(session).run(before_setup=True, after_setup=False)
PreMigration ==
    /\ pc = "PreMigration"
    /\ trace' = Append(trace, "migrate:before_setup")
    /\ pc' = "EnsureMailbox"
    /\ UNCHANGED << config, disk, env, result, accepted_keys, start, repeat, changes >>

\* Line 160: session.config.open_local_mailbox(session)
EnsureMailbox ==
    /\ pc = "EnsureMailbox"
    /\ trace' = Append(trace, "open_local_mailbox")
    /\ pc' = "ReconcileTags"
    /\ UNCHANGED << config, disk, env, result, accepted_keys, start, repeat, changes >>

\* Lines 163-183: the standard tags.  No handler surrounds the loops, so an
\* exception raised in them ends the command.
ReconcileTags ==
    /\ pc = "ReconcileTags"
    /\ \E r \in { CreateStandardTags(config.tags, refused) } :
           /\ config' = [config EXCEPT !.tags = r.tags]
           /\ IF r.raised
              THEN /\ pc' = "done"
                   /\ result' = "raised"
                   /\ trace' = trace
              ELSE /\ pc' = "ActivateCapabilities"
                   /\ result' = result
                   /\ trace' = Emit(trace, InList("New", r.created),
                                    "notify:created_default_tags")
    /\ UNCHANGED << disk, env, accepted_keys, start, repeat, changes >>

\* ActivateCapabilities when the import of line 190 never fails.
ActivateCapabilities_ImportNeverFails ==
    /\ pc = "ActivateCapabilities"
    /\ LET basic   == AppendPlugins(config.plugins, 1)
           addsb   == ~InList("autotag_sb", basic)
           plugins == IF addsb THEN Append(basic, "autotag_sb") ELSE basic
           t1      == Emit(Emit(trace, addsb, "notify:spambayes"),
                           ~sb_installed, "warning:spambayes")
           \* config.save() writes the configuration, config.load()
           \* replaces it by what was written.
           saved   == [config EXCEPT !.plugins = plugins]
           loaded  == saved
           addgrav == loaded.gravatar = <<>>
           addgpg  == gpg_home_exists /\ loaded.gpg = <<>>
           addrule == InList("autotag_sb", loaded.plugins)
                      /\ Len(loaded.autotag) = 0
           t2      == Emit(Emit(t1 \o << "save", "load" >>,
                                addgrav, "notify:gravatar"),
                           addgpg, "notify:gpg_importer")
       IN  /\ disk' = saved
           /\ config' =
                [loaded EXCEPT
                   !.gravatar = IF addgrav
                                THEN Append(@, [active |-> "True"]) ELSE @,
                   !.gpg      = IF addgpg
                                THEN Append(@, [active |-> "True",
                                                gpg_home |-> "~/.gnupg"])
                                ELSE @,
                   !.autotag  = IF addrule
                                THEN Append(@, DefaultAutotag) ELSE @]
           /\ trace' = t2
    /\ pc' = "DiscoverIdentities"
    /\ UNCHANGED << env, result, accepted_keys, start, repeat, changes >>

\* ActivateCapabilities without the os.path.exists test of line 207.
ActivateCapabilities_NoHomeTest ==
    /\ pc = "ActivateCapabilities"
    /\ LET basic   == AppendPlugins(config.plugins, 1)
           addsb   == sb_installed /\ ~InList("autotag_sb", basic)
           plugins == IF addsb THEN Append(basic, "autotag_sb") ELSE basic
           t1      == Emit(Emit(trace, addsb, "notify:spambayes"),
                           ~sb_installed, "warning:spambayes")
           \* config.save() writes the configuration, config.load()
           \* replaces it by what was written.
           saved   == [config EXCEPT !.plugins = plugins]
           loaded  == saved
           addgrav == loaded.gravatar = <<>>
           addgpg  == loaded.gpg = <<>>
           addrule == InList("autotag_sb", loaded.plugins)
                      /\ Len(loaded.autotag) = 0
           t2      == Emit(Emit(t1 \o << "save", "load" >>,
                                addgrav, "notify:gravatar"),
                           addgpg, "notify:gpg_importer")
       IN  /\ disk' = saved
           /\ config' =
                [loaded EXCEPT
                   !.gravatar = IF addgrav
                                THEN Append(@, [active |-> "True"]) ELSE @,
                   !.gpg      = IF addgpg
                                THEN Append(@, [active |-> "True",
                                                gpg_home |-> "~/.gnupg"])
                                ELSE @,
                   !.autotag  = IF addrule
                                THEN Append(@, DefaultAutotag) ELSE @]
           /\ trace' = t2
    /\ pc' = "DiscoverIdentities"
    /\ UNCHANGED << env, result, accepted_keys, start, repeat, changes >>

\* Lines 185-220: plugins, a save and a reload, importers, autotag rule.
ActivateCapabilities ==
    /\ pc = "ActivateCapabilities"
    /\ LET basic   == AppendPlugins(config.plugins, 1)
           addsb   == sb_installed /\ ~InList("autotag_sb", basic)
           plugins == IF addsb THEN Append(basic, "autotag_sb") ELSE basic
           t1      == Emit(Emit(trace, addsb, "notify:spambayes"),
                           ~sb_installed, "warning:spambayes")
           \* config.save() writes the configuration, config.load()
           \* replaces it by what was written.
           saved   == [config EXCEPT !.plugins = plugins]
           loaded  == saved
           addgrav == loaded.gravatar = <<>>
           addgpg  == gpg_home_exists /\ loaded.gpg = <<>>
           addrule == InList("autotag_sb", loaded.plugins)
                      /\ Len(loaded.autotag) = 0
           t2      == Emit(Emit(t1 \o << "save", "load" >>,
                                addgrav, "notify:gravatar"),
                           addgpg, "notify:gpg_importer")
       IN  /\ disk' = saved
           /\ config' =
                [loaded EXCEPT
                   !.gravatar = IF addgrav
                                THEN Append(@, [active |-> "True"]) ELSE @,
                   !.gpg      = IF addgpg
                                THEN Append(@, [active |-> "True",
                                                gpg_home |-> "~/.gnupg"])
                                ELSE @,
                   !.autotag  = IF addrule
                                THEN Append(@, DefaultAutotag) ELSE @]
           /\ trace' = t2
    /\ pc' = "DiscoverIdentities"
    /\ UNCHANGED << env, result, accepted_keys, start, repeat, changes >>


\* DiscoverIdentities without the test of line 229.
DiscoverIdentities_Unprobed ==
    /\ pc = "DiscoverIdentities"
    /\ LET st == KeyLoop([profiles      |-> config.profiles,
                          gpg_recipient |-> config.gpg_recipient,
                          crypto_policy |-> config.crypto_policy,
                          accepted_keys |-> <<>>,
                          notified      |-> <<>>],
                         keyring, 1, today)
       IN  /\ config' = [config EXCEPT
                           !.profiles      = st.profiles,
                           !.gpg_recipient = st.gpg_recipient,
                           !.crypto_policy = st.crypto_policy]
           /\ accepted_keys' = st.accepted_keys
           /\ trace' = Emit(trace \o st.notified, ~gnupg_available,
                            "warning:gpg_unavailable")
    /\ pc' = "MaybeObfuscate"
    /\ UNCHANGED << disk, env, result, start, repeat, changes >>

\* Lines 227-267: the secret keys of the keyring become profiles, the
\* recipient of the encrypted configuration and the crypto policy.
DiscoverIdentities ==
    /\ pc = "DiscoverIdentities"
    /\ IF gnupg_available /\ keyring_listing = "raises"
       THEN \* No handler surrounds line 230: the exception ends the command.
            /\ pc' = "done"
            /\ result' = "raised"
            /\ UNCHANGED << config, accepted_keys, trace >>
       ELSE /\ pc' = "MaybeObfuscate"
            /\ result' = result
            /\ IF gnupg_available
               THEN LET keys == list_secret_keys(keyring, keyring_listing)
                        st == KeyLoop(
                                [profiles      |-> config.profiles,
                                 gpg_recipient |-> config.gpg_recipient,
                                 crypto_policy |-> config.crypto_policy,
                                 accepted_keys |-> <<>>,
                                 notified      |-> <<>>],
                                keys, 1, today)
                    IN  /\ config' = [config EXCEPT
                                        !.profiles      = st.profiles,
                                        !.gpg_recipient = st.gpg_recipient,
                                        !.crypto_policy = st.crypto_policy]
                        /\ accepted_keys' = st.accepted_keys
                        /\ trace' = trace \o st.notified
               ELSE /\ trace' = Append(trace, "warning:gpg_unavailable")
                    /\ UNCHANGED << config, accepted_keys >>
    /\ UNCHANGED << disk, env, start, repeat, changes >>

\* MaybeObfuscate without the test of line 271.
MaybeObfuscate_Again ==
    /\ pc = "MaybeObfuscate"
    /\ IF config.gpg_recipient # "" /\ ~index_built
       THEN \E randcrap \in Salts :
              /\ config' = [config EXCEPT !.obfuscate_index = randcrap,
                                          !.index_encrypted = TRUE]
              /\ trace' = Append(trace, "notify:obfuscating")
       ELSE UNCHANGED << config, trace >>
    /\ pc' = "PostMigration"
    /\ UNCHANGED << disk, env, result, accepted_keys, start, repeat, changes >>

\* MaybeObfuscate testing the recipient the run started with instead of the
\* one line 269 reads.
MaybeObfuscate_StaleRecipient ==
    /\ pc = "MaybeObfuscate"
    /\ IF /\ start.gpg_recipient # ""
          /\ ~index_built
          /\ config.obfuscate_index = ""
       THEN \E randcrap \in Salts :
              /\ config' = [config EXCEPT !.obfuscate_index = randcrap,
                                          !.index_encrypted = TRUE]
              /\ trace' = Append(trace, "notify:obfuscating")
       ELSE UNCHANGED << config, trace >>
    /\ pc' = "PostMigration"
    /\ UNCHANGED << disk, env, result, accepted_keys, start, repeat, changes >>

\* MaybeObfuscate without the assignment of line 278.
MaybeObfuscate_SaltOnly ==
    /\ pc = "MaybeObfuscate"
    /\ IF /\ config.gpg_recipient # ""
          /\ ~index_built
          /\ config.obfuscate_index = ""
       THEN \E randcrap \in Salts :
              /\ config' = [config EXCEPT !.obfuscate_index = randcrap]
              /\ trace' = Append(trace, "notify:obfuscating")
       ELSE UNCHANGED << config, trace >>
    /\ pc' = "PostMigration"
    /\ UNCHANGED << disk, env, result, accepted_keys, start, repeat, changes >>

\* Lines 269-278: the index is obfuscated once.
MaybeObfuscate ==
    /\ pc = "MaybeObfuscate"
    /\ IF /\ config.gpg_recipient # ""
          /\ ~index_built
          /\ config.obfuscate_index = ""
       THEN \E randcrap \in Salts :
              /\ config' = [config EXCEPT !.obfuscate_index = randcrap,
                                          !.index_encrypted = TRUE]
              /\ trace' = Append(trace, "notify:obfuscating")
       ELSE UNCHANGED << config, trace >>
    /\ pc' = "PostMigration"
    /\ UNCHANGED << disk, env, result, accepted_keys, start, repeat, changes >>

\* Line 281: Migrate(session).run(before_setup=False, after_setup=True)
PostMigration ==
    /\ pc = "PostMigration"
    /\ trace' = Append(trace, "migrate:after_setup")
    /\ pc' = "Persist"
    /\ UNCHANGED << config, disk, env, result, accepted_keys, start, repeat, changes >>

\* Persist without the save of line 283.
Persist_NoSave ==
    /\ pc = "Persist"
    /\ result' = "success"
    /\ pc' = "done"
    /\ UNCHANGED << config, disk, trace, env, accepted_keys, start, repeat,
                    changes >>

\* Lines 283-284: the final save and the success result.
Persist ==
    /\ pc = "Persist"
    /\ disk' = config
    /\ trace' = Append(trace, "save")
    /\ result' = "success"
    /\ pc' = "done"
    /\ UNCHANGED << config, env, accepted_keys, start, repeat, changes >>

\* ------------------------------------------------------------------------
\* The world outside the command, which changes only between runs
\* ------------------------------------------------------------------------

Between == pc \in { "idle", "done" } /\ changes < MaxEnvChanges

\* The administrator switches lockdown on or off.
ToggleLockdown ==
    /\ Between
    /\ lockdown' = ~lockdown
    /\ pc' = "idle"
    /\ changes' = changes + 1
    /\ UNCHANGED << config, disk, gnupg_available, keyring, today,
                    index_built, sb_installed, gpg_home_exists, refused,
                    keyring_listing, result, trace, accepted_keys, start, repeat >>

\* GnuPG is installed or removed.
ToggleGnuPG ==
    /\ Between
    /\ gnupg_available' = ~gnupg_available
    /\ pc' = "idle"
    /\ changes' = changes + 1
    /\ UNCHANGED << config, disk, lockdown, keyring, today,
                    index_built, sb_installed, gpg_home_exists, refused,
                    keyring_listing, result, trace, accepted_keys, start, repeat >>

\* The search index is built.
BuildIndex ==
    /\ Between
    /\ ~index_built
    /\ index_built' = TRUE
    /\ pc' = "idle"
    /\ changes' = changes + 1
    /\ UNCHANGED << config, disk, lockdown, gnupg_available, keyring, today,
                    sb_installed, gpg_home_exists, refused,
                    keyring_listing, result, trace, accepted_keys, start, repeat >>

\* Time passes: today becomes the last of Dates.
AdvanceDate ==
    /\ Between
    /\ today # Dates[Len(Dates)]
    /\ today' = Dates[Len(Dates)]
    /\ pc' = "idle"
    /\ changes' = changes + 1
    /\ UNCHANGED << config, disk, lockdown, gnupg_available, keyring,
                    index_built, sb_installed, gpg_home_exists, refused,
                    keyring_listing, result, trace, accepted_keys, start, repeat >>

\* The keys of the keyring are enumerated in another order.
ReorderKeyring ==
    /\ Between
    /\ Len(keyring) = 2
    /\ keyring' = << keyring[2], keyring[1] >>
    /\ pc' = "idle"
    /\ changes' = changes + 1
    /\ UNCHANGED << config, disk, lockdown, gnupg_available, today,
                    index_built, sb_installed, gpg_home_exists, refused,
                    keyring_listing, result, trace, accepted_keys, start, repeat >>

Next ==
    \/ GuardCheck
    \/ PreMigration
    \/ EnsureMailbox
    \/ ReconcileTags
    \/ ActivateCapabilities
    \/ DiscoverIdentities
    \/ MaybeObfuscate
    \/ PostMigration
    \/ Persist
    \/ ToggleLockdown
    \/ ToggleGnuPG
    \/ BuildIndex
    \/ AdvanceDate
    \/ ReorderKeyring

Spec == Init /\ [][Next]_vars

\* The statements of a run that has started: the command is synchronous and
\* runs to completion, so a started run always takes its next step.
RunStep ==
    \/ PreMigration
    \/ EnsureMailbox
    \/ ReconcileTags
    \/ ActivateCapabilities
    \/ DiscoverIdentities
    \/ MaybeObfuscate
    \/ PostMigration
    \/ Persist

\* The installs of InitStores, with collaborators that do not fail.
InitLive ==
    /\ InitStores
    /\ refused = {}
    /\ keyring_listing = "works"
    /\ InitCommon

SpecLive == InitLive /\ [][Next]_vars /\ WF_vars(RunStep)

SpecRefusing == InitRefusing /\ [][Next]_vars

SpecListingFails == InitListingFails /\ [][Next]_vars


\* ------------------------------------------------------------------------
\* Properties
\* ------------------------------------------------------------------------

\* C1: a run that starts right after another run, with nothing outside the
\* command changed in between, ends with the configuration and the tags it
\* started with, which are those the run before it left.
C1_Idempotence ==
    (pc = "done" /\ repeat) => config = start

\* A second run in a row has succeeded on an install whose first run made
\* tags, profiles, a recipient and a salt.
C1_Witness ==
    /\ pc = "done" /\ repeat /\ result = "success"
    /\ Len(config.tags) >= Len(TagOrder)
    /\ Len(config.profiles) = 2
    /\ config.gpg_recipient = "keyA"
    /\ config.obfuscate_index # ""
    /\ config.autotag # <<>>

\* C2: a run that starts in lockdown ends at once with an error: it calls
\* no collaborator (no migration, no mailbox, no save, no message) and
\* changes neither the configuration in memory nor the saved one.
C2_LockdownShortCircuit ==
    [][ (pc \in { "idle", "done" } /\ lockdown /\ pc' # "idle")
        => /\ pc' = "done"
           /\ result' = "error"
           /\ trace' = <<>>
           /\ config' = config
           /\ disk' = disk ]_vars

\* A run has been stopped by the lockdown.
C2_Witness ==
    pc = "done" /\ result = "error" /\ lockdown /\ trace = <<>>


\* Calendar order of two dates [y, m, d].
DateLE(d1, d2) ==
    \/ d1.y < d2.y
    \/ d1.y = d2.y /\ d1.m < d2.m
    \/ d1.y = d2.y /\ d1.m = d2.m /\ d1.d <= d2.d

\* The date a YYYY-MM-DD string of the keyring denotes.
ParseDate(str) ==
    CHOOSE d \in { Dates[i] : i \in 1..Len(Dates) } : strftime(d) = str

\* The keyring entry e has no revocation date, or one after the day.
Usable(e, day) ==
    \/ "revocation-date" \notin DOMAIN e.details
    \/ ~DateLE(ParseDate(e.details["revocation-date"]), day)

\* The positions of the usable entries of a keyring.
UsableAt(kr, day) == { i \in 1..Len(kr) : Usable(kr[i], day) }

\* The uids of a keyring entry that carry a non-empty email.
MailUids(e) ==
    { e.details.uids[j] : j \in { n \in 1..Len(e.details.uids) :
          /\ "email" \in DOMAIN e.details.uids[n]
          /\ e.details.uids[n].email # "" } }

\* The current run has gone through the discovery of the secret keys.
Discovered ==
    \/ pc \in { "MaybeObfuscate", "PostMigration", "Persist" }
    \/ pc = "done" /\ result = "success"

\* C3: a successful run that starts with a recipient key, an empty salt and
\* no built index ends with a non-empty salt and index_encrypted set; and no
\* step ever changes a salt that is not empty.
C3_OneTimeObfuscation ==
    /\ []( ( /\ pc = "done" /\ result = "success"
             /\ start.gpg_recipient # "" /\ start.obfuscate_index = ""
             /\ ~index_built )
           => (config.obfuscate_index # "" /\ config.index_encrypted) )
    /\ [][ config.obfuscate_index # ""
           => config'.obfuscate_index = config.obfuscate_index ]_vars

\* A second run in a row has succeeded with a recipient key and a salt from
\* the run before it, and the index still unbuilt.
C3_Witness ==
    /\ pc = "done" /\ result = "success" /\ repeat
    /\ start.gpg_recipient # "" /\ start.obfuscate_index # ""
    /\ ~index_built

\* The key of the first usable entry of the keyring with the encrypt
\* capability, "" if there is none.
FirstCapable(kr, day) ==
    LET capable == { i \in UsableAt(kr, day) :
                        kr[i].details.capabilities.encrypt }
    IN  IF capable = {} THEN ""
        ELSE kr[CHOOSE i \in capable : \A j \in capable : i <= j].key

\* C4: when a run starts without a recipient key and the keyring is
\* available, the recipient key after discovery is the first key in
\* enumeration order that is not revoked and can encrypt (none if there is
\* no such key); and no step ever changes a recipient key that is set.
C4_FirstRecipientWins ==
    /\ []( (Discovered /\ gnupg_available /\ start.gpg_recipient = "")
           => config.gpg_recipient = FirstCapable(keyring, today) )
    /\ [][ config.gpg_recipient # ""
           => config'.gpg_recipient = config.gpg_recipient ]_vars

\* Discovery has chosen the first of two usable keys that can both encrypt.
C4_Witness ==
    /\ pc = "done" /\ result = "success" /\ gnupg_available
    /\ start.gpg_recipient = ""
    /\ Len(keyring) = 2 /\ UsableAt(keyring, today) = { 1, 2 }
    /\ keyring[1].details.capabilities.encrypt
    /\ keyring[2].details.capabilities.encrypt
    /\ config.gpg_recipient = keyring[1].key

\* C5: after discovery with an available keyring, the accepted keys are
\* exactly the keys whose revocation date is absent or after today, in
\* enumeration order; every profile the run added, a recipient key the run
\* set and a crypto policy the run changed come from such a key; and every
\* non-empty email of such a key has a profile.
C5_RevocationFiltering ==
    (Discovered /\ gnupg_available) =>
      LET ok == UsableAt(keyring, today)
          IsOk(e) == Usable(e, today)
          kept == SelectSeq(keyring, IsOk)
      IN  /\ accepted_keys = [i \in 1..Len(kept) |-> kept[i].key]
          /\ \A n \in (Len(start.profiles) + 1)..Len(config.profiles) :
               \E i \in ok : \E u \in MailUids(keyring[i]) :
                  config.profiles[n].email = u.email
          /\ config.gpg_recipient # start.gpg_recipient
               => \E i \in ok : keyring[i].key = config.gpg_recipient
          /\ config.crypto_policy # start.crypto_policy => ok # {}
          /\ \A i \in ok : \A u \in MailUids(keyring[i]) :
               u.email \in ProfileEmails(config.profiles)

\* Discovery has skipped a first key that can encrypt and is revoked as of
\* today, and accepted the second key.
C5_Witness ==
    /\ pc = "done" /\ result = "success" /\ gnupg_available
    /\ Len(keyring) = 2
    /\ "revocation-date" \in DOMAIN keyring[1].details
    /\ keyring[1].details["revocation-date"] = strftime(today)
    /\ keyring[1].details.capabilities.encrypt
    /\ accepted_keys = << keyring[2].key >>
    /\ start.gpg_recipient = ""


\* No two profiles of the list have the same email.
OnePerEmail(profiles) ==
    \A i, j \in 1..Len(profiles) :
        profiles[i].email = profiles[j].email => i = j

\* The list old is the beginning of the list new.
IsPrefix(old, new) ==
    /\ Len(old) <= Len(new)
    /\ \A i \in 1..Len(old) : new[i] = old[i]

\* C6: the profile list never holds two profiles of one email; every step
\* only appends to it; and every profile a run appended is the email and
\* name of a uid of the keyring whose email is present and not empty.
C6_ProfileDedup ==
    /\ [] OnePerEmail(config.profiles)
    /\ [][ IsPrefix(config.profiles, config'.profiles) ]_vars
    /\ [] \A n \in (Len(start.profiles) + 1)..Len(config.profiles) :
            \E i \in 1..Len(keyring) : \E u \in MailUids(keyring[i]) :
               config.profiles[n] = [email |-> u.email, name |-> u.name]

\* Two keys that share an email with each other and with a profile made by
\* hand were accepted, and only the one new email got a profile.
C6_Witness ==
    /\ pc = "done" /\ result = "success"
    /\ Len(accepted_keys) = 2
    /\ start.profiles = StartProfile
    /\ config.profiles =
         Append(StartProfile, [email |-> UBob.email, name |-> UBob.name])

\* The positions of the tags of a store that have the key k.
TagsWithKey(tags, k) == { i \in 1..Len(tags) : tags[i].key = k }

\* Every standard tag: those of Setup.TAGS and the attribute tags.
CanonicalItems == StandardTagItems \o AttributeTagItems

\* The tag has every attribute the definition names, with its value.
HasCanonicalValues(tag, attrs) ==
    \A a \in DOMAIN attrs : a \in DOMAIN tag.attrs /\ tag.attrs[a] = attrs[a]

\* The store has exactly one tag for the item, with the item's values.
Reconciled(tags, item) ==
    /\ Cardinality(TagsWithKey(tags, item.name)) = 1
    /\ \A i \in TagsWithKey(tags, item.name) :
          HasCanonicalValues(tags[i], item.attrs)

\* C7: a run outside lockdown with the keyring unavailable succeeds: it
\* warns, leaves every standard tag reconciled, ends with the save, and
\* leaves the profiles, the recipient key and the crypto policy as they
\* were when it started.
C7_GracefulDegradation ==
    (pc = "done" /\ ~lockdown /\ ~gnupg_available) =>
      /\ result = "success"
      /\ InList("warning:gpg_unavailable", trace)
      /\ trace[Len(trace)] = "save" /\ disk = config
      /\ \A n \in 1..Len(CanonicalItems) :
            Reconciled(config.tags, CanonicalItems[n])
      /\ config.profiles = start.profiles
      /\ config.gpg_recipient = start.gpg_recipient
      /\ config.crypto_policy = start.crypto_policy

\* A run has succeeded without the keyring although the keyring holds a
\* usable key that can encrypt, and no recipient key was set.
C7_Witness ==
    /\ pc = "done" /\ result = "success" /\ ~gnupg_available
    /\ FirstCapable(keyring, today) # ""
    /\ config.gpg_recipient = "" /\ config.crypto_policy = "none"
    /\ config.profiles = <<>>


C9_TagFailureIsolation ==
    (pc = "done" /\ ~lockdown) =>
      /\ result = "success"
      /\ \A n \in 1..Len(CanonicalItems) :
            CanonicalItems[n].name \notin refused
            => Reconciled(config.tags, CanonicalItems[n])

\* The positions of an event in a trace.
EventsAt(tr, event) == { i \in 1..Len(tr) : tr[i] = event }

\* C10 as stated: a successful run saves once and reloads once, and both
\* after the migration that follows the setup.
C10_SinglePersistPoint ==
    (pc = "done" /\ result = "success") =>
      /\ Cardinality(EventsAt(trace, "save")) = 1
      /\ Cardinality(EventsAt(trace, "load")) = 1
      /\ \A i \in EventsAt(trace, "save") \cup EventsAt(trace, "load") :
            \A j \in EventsAt(trace, "migrate:after_setup") : j < i

\* C10: a successful run saves twice and reloads once.  The first save and
\* the reload that follows it come after the tags and the plugins and
\* before the importers, the discovery and the obfuscation; the second
\* save is the last call of the run, right after the migration that follows
\* the setup, and leaves the saved configuration equal to the one in
\* memory.  Before the plugin stage a run has saved nothing.
C10_TwoSavesOneReload ==
    /\ (pc = "done" /\ result = "success") =>
         \E i \in 1..Len(trace) :
            /\ EventsAt(trace, "save") = { i, Len(trace) }
            /\ EventsAt(trace, "load") = { i + 1 }
            /\ i + 1 < Len(trace) - 1
            /\ trace[Len(trace) - 1] = "migrate:after_setup"
            /\ \A j \in 1..(i - 1) :
                  trace[j] \in { "migrate:before_setup", "open_local_mailbox",
                                 "notify:created_default_tags",
                                 "notify:spambayes", "warning:spambayes" }
            /\ \A j \in (i + 2)..(Len(trace) - 2) :
                  trace[j] \in { "notify:gravatar", "notify:gpg_importer",
                                 "notify:encrypting", "notify:obfuscating",
                                 "warning:gpg_unavailable" }
            /\ disk = config
    /\ pc \in { "PreMigration", "EnsureMailbox", "ReconcileTags",
                "ActivateCapabilities" }
         => EventsAt(trace, "save") \cup EventsAt(trace, "load") = {}

\* A run has succeeded that enabled an importer and obfuscated the index
\* after its first save.
C10_Witness ==
    /\ pc = "done" /\ result = "success"
    /\ InList("notify:gravatar", trace)
    /\ InList("notify:obfuscating", trace)
    /\ start.obfuscate_index = ""

StageOrder ==
    << "PreMigration", "EnsureMailbox", "ReconcileTags",
       "ActivateCapabilities", "DiscoverIdentities", "MaybeObfuscate",
       "PostMigration", "Persist", "done" >>

\* C12: a run outside lockdown goes through the stages PreMigration,
\* EnsureMailbox, ReconcileTags, ActivateCapabilities, DiscoverIdentities,
\* MaybeObfuscate, PostMigration, Persist in this order, each once, and
\* then ends with success.  The migrations run twice: with before_setup
\* as the first call of the run, when nothing of the configuration has
\* changed, and with after_setup as the last call before the final save,
\* after which the configuration does not change any more.
C12_StageOrdering ==
    /\ [][ pc' # pc =>
             \/ pc \in { "idle", "done" } /\ pc' = "idle"
             \/ pc = "idle" /\ pc' = "done" /\ lockdown
             \/ pc \in { "idle", "done" } /\ pc' = StageOrder[1] /\ ~lockdown
             \/ \E n \in 1..(Len(StageOrder) - 1) :
                   pc = StageOrder[n] /\ pc' = StageOrder[n + 1] ]_vars
    /\ []( pc = "EnsureMailbox"
           => (config = start /\ trace = << "migrate:before_setup" >>) )
    /\ []( (pc = "done" /\ result = "success")
           => /\ EventsAt(trace, "migrate:before_setup") = { 1 }
              /\ EventsAt(trace, "open_local_mailbox") = { 2 }
              /\ EventsAt(trace, "migrate:after_setup") = { Len(trace) - 1 }
              /\ trace[Len(trace)] = "save" )
    /\ [][ (pc \in { "PostMigration", "Persist" }) => config' = config ]_vars
    /\ []( (pc = "done" /\ ~lockdown) => result = "success" )
    /\ (pc = "PreMigration") ~> (pc = "done" /\ result = "success")

\* A first run has ended with success after creating the default tags,
\* setting a recipient key and obfuscating the index.
C12_Witness ==
    /\ pc = "done" /\ result = "success" /\ ~repeat
    /\ InList("notify:created_default_tags", trace)
    /\ InList("notify:encrypting", trace)
    /\ InList("notify:obfuscating", trace)
    /\ Len(trace) >= 9

\* C13: when GnuPG is available and listing the secret keys fails, the run
\* still succeeds, leaves the profiles, the recipient and the crypto policy
\* as they were, and ends with the migration after the setup and the save.
C13_FailedListingIsUnavailable ==
    (pc = "done" /\ ~lockdown /\ gnupg_available /\ keyring_listing # "works")
    => /\ result = "success"
       /\ config.profiles = start.profiles
       /\ config.gpg_recipient = start.gpg_recipient
       /\ config.crypto_policy = start.crypto_policy
       /\ Len(trace) >= 2
       /\ SubSeq(trace, Len(trace) - 1, Len(trace))
            = << "migrate:after_setup", "save" >>

\* A list without duplicates.
NoDuplicates(list) ==
    \A i, j \in 1..Len(list) : list[i] = list[j] => i = j

\* C14: the active plugin list never holds a plugin twice; every step only
\* appends to it, so that no plugin is removed and the entries keep their
\* order; after a successful run it holds every known plugin.
C14_PluginSetUnion ==
    /\ []( NoDuplicates(config.plugins) )
    /\ [][ IsPrefix(config.plugins, config'.plugins) ]_vars
    /\ []( (pc = "done" /\ result = "success")
           => \A n \in 1..Len(PLUGINS) : InList(PLUGINS[n], config.plugins) )

\* A second run in a row has succeeded on a list that started with one known
\* plugin, the spam classifier and a plugin the host does not know: the list
\* is the old one followed by the other known plugin.
C14_Witness ==
    /\ pc = "done" /\ result = "success" /\ repeat
    /\ config.plugins = << "search", "autotag_sb", "hacks", "tags" >>

\* How often x is in a list.
Count(list, x) == Cardinality(EventsAt(list, x))

\* C15: a run outside lockdown succeeds whether or not spambayes is
\* installed and goes through to the final save.  Without spambayes it warns
\* once, notifies nothing and leaves the classifier as it was in the plugin
\* list; with spambayes and the classifier not yet active it adds the
\* classifier once and notifies once; with spambayes and the classifier
\* active it adds nothing and neither notifies nor warns.
C15_OptionalSpamClassifier ==
    /\ (pc = "done" /\ ~lockdown) => result = "success"
    /\ (pc = "done" /\ result = "success")
       => /\ SubSeq(trace, Len(trace) - 1, Len(trace))
               = << "migrate:after_setup", "save" >>
          /\ ~sb_installed
             => /\ Count(trace, "warning:spambayes") = 1
                /\ Count(trace, "notify:spambayes") = 0
                /\ Count(config.plugins, "autotag_sb")
                     = Count(start.plugins, "autotag_sb")
          /\ (sb_installed /\ ~InList("autotag_sb", start.plugins))
             => /\ Count(config.plugins, "autotag_sb") = 1
                /\ Count(trace, "notify:spambayes") = 1
                /\ Count(trace, "warning:spambayes") = 0
          /\ (sb_installed /\ InList("autotag_sb", start.plugins))
             => /\ Count(config.plugins, "autotag_sb")
                     = Count(start.plugins, "autotag_sb")
                /\ Count(trace, "notify:spambayes") = 0
                /\ Count(trace, "warning:spambayes") = 0

\* A run has succeeded without spambayes on an install whose plugin list was
\* empty: it has warned and the classifier is not in the list.
C15_Witness ==
    /\ pc = "done" /\ result = "success" /\ ~sb_installed
    /\ start.plugins = <<>>
    /\ InList("warning:spambayes", trace)
    /\ ~InList("autotag_sb", config.plugins)

\* C16: after a successful run the autotag list is the default rule alone
\* when spambayes is installed (the run has then activated the classifier)
\* and the list was empty at the start, and is unchanged otherwise: without
\* spambayes, or with a rule already there, the run adds no rule.
C16_DefaultRuleOnlyIfActivated ==
    (pc = "done" /\ result = "success")
    => config.autotag = IF sb_installed /\ start.autotag = <<>>
                        THEN << DefaultAutotag >>
                        ELSE start.autotag

\* C17: no step changes a gravatar or gpg importer list that is not empty,
\* no step adds to the gpg importer list while ~/.gnupg does not exist, and
\* a step adds at most one entry to an empty list; after a successful run
\* each list is its one default entry if it was empty at the start (and, for
\* gpg, the directory exists) and is otherwise as it was.
C17_ImporterToggles ==
    /\ [][ /\ config.gravatar # <<>> => config'.gravatar = config.gravatar
           /\ config.gpg # <<>> => config'.gpg = config.gpg
           /\ ~gpg_home_exists => config'.gpg = config.gpg
           /\ config.gravatar = <<>> => Len(config'.gravatar) <= 1
           /\ config.gpg = <<>> => Len(config'.gpg) <= 1 ]_vars
    /\ []( (pc = "done" /\ result = "success")
           => /\ config.gravatar = IF start.gravatar = <<>>
                                   THEN << [active |-> "True"] >>
                                   ELSE start.gravatar
              /\ config.gpg = IF start.gpg = <<>> /\ gpg_home_exists
                              THEN << [active |-> "True",
                                       gpg_home |-> "~/.gnupg"] >>
                              ELSE start.gpg )

\* A second run in a row has succeeded where ~/.gnupg does not exist: the
\* gravatar list has the one entry of the first run and the gpg list is
\* empty.
C17_Witness ==
    /\ pc = "done" /\ result = "success" /\ repeat
    /\ ~gpg_home_exists
    /\ start.gravatar = << [active |-> "True"] >>
    /\ config.gravatar = start.gravatar
    /\ config.gpg = <<>>

\* C18: a successful run that started without a recipient key and without a
\* salt, the index not being built, ends with the recipient key, a salt and
\* index_encrypted all set when GnuPG is available and the keyring has a
\* usable key that can encrypt, and with all three unset otherwise.
C18_SameRunCoupling ==
    ( /\ pc = "done" /\ result = "success"
      /\ start.gpg_recipient = "" /\ start.obfuscate_index = ""
      /\ ~index_built )
    => IF gnupg_available /\ FirstCapable(keyring, today) # ""
       THEN /\ config.gpg_recipient = FirstCapable(keyring, today)
            /\ config.obfuscate_index \in Salts
            /\ config.index_encrypted
       ELSE /\ config.gpg_recipient = ""
            /\ config.obfuscate_index = ""
            /\ ~config.index_encrypted

\* The first run on a fresh install has succeeded and has set, in that one
\* run, the recipient key, the salt and the flag.
C18_Witness ==
    /\ pc = "done" /\ result = "success" /\ ~repeat /\ changes = 0
    /\ start.gpg_recipient = "" /\ start.obfuscate_index = ""
    /\ ~index_built /\ gnupg_available
    /\ config.gpg_recipient = FirstCapable(keyring, today)
    /\ config.gpg_recipient # ""
    /\ config.obfuscate_index # ""
    /\ config.index_encrypted

\* C19: in every state the salt is set exactly when index_encrypted is, and
\* a set salt comes with a recipient key; no step changes the salt or the
\* flag while the index is built, nor the obfuscation step while there is no
\* recipient key, nor any other step of a run.
C19_ObfuscationConsistency ==
    /\ []( config.obfuscate_index # "" <=> config.index_encrypted )
    /\ []( config.obfuscate_index # "" => config.gpg_recipient # "" )
    /\ [][ ( \/ index_built
             \/ pc # "MaybeObfuscate"
             \/ config.gpg_recipient = "" )
           => /\ config'.obfuscate_index = config.obfuscate_index
              /\ config'.index_encrypted = config.index_encrypted ]_vars

\* A run has succeeded with the index built and a recipient key set, and
\* has left the salt empty and the flag off.
C19_Witness ==
    /\ pc = "done" /\ result = "success" /\ index_built
    /\ config.gpg_recipient # ""
    /\ config.obfuscate_index = ""
    /\ ~config.index_encrypted

====
